---- MODULE Spec2Model ----
(***************************************************************************)
(* Penny Stock Picker frontend: the authenticated API client (apiClient)   *)
(* with its request and response interceptors, the credential store it     *)
(* reads and writes, and the Login page's submit handler that drives it.   *)
(*                                                                         *)
(* Steps follow the promise structure of the JavaScript.  A handler runs   *)
(* without interruption up to its next await.  A request that a            *)
(* continuation issues (the re-send after a refresh, Login's getMe) is     *)
(* queued by apiClient(config); axios runs the request interceptor in a    *)
(* later promise job, and only then is the request on the wire, so other   *)
(* handlers may run in between.  For a request issued by a component the   *)
(* call and the interceptor job form one step: nothing depends on the time *)
(* between them.  The backend is free to answer any exchange with success, *)
(* 401, another error status, or not at all (transport error).             *)
(*                                                                         *)
(* The route table, the Register, Dashboard and Settings pages and the     *)
(* database setup script are modelled beside the client, each with a       *)
(* specification of its own (RegisterSpec, DashboardSpec, SettingsSpec,    *)
(* SetupSpec) that leaves the client's variables as Init sets them.        *)
(***************************************************************************)
EXTENDS Integers, Sequences, FiniteSets, TLC

\* ---------------------------------------------------------------- bounds
NumReqs == 1      \* concurrent callers of apiClient besides the Login page
MaxTok == 2       \* token pairs the backend issues in one run
MaxPages == 3     \* largest pages count the stocks listing answers with
MaxTests == 2     \* API key tests started on the Settings page in one run

\* ---------------------------------------------------------------- program constants
MinPasswordLength == 8

\* ---------------------------------------------------------------- values
Null == <<>>
AccessOf(n) == <<"at", n>>
RefreshOf(n) == <<"rt", n>>
IssueOf(tok) == tok[2]

Bearer(tok) == <<"Bearer", tok>>
NoHeader == <<>>

LoginSlot == 0
Reqs == 1..NumReqs
Slots == {LoginSlot} \cup Reqs

\* HTTP outcomes of one exchange; 0 stands for a transport error (no response)
Unauthorized == 401
ServerError == 500
NoResponse == 0
FailureStatuses == {Unauthorized, ServerError, NoResponse}

ResponseOf(n, data) == <<"response", n, data>>
ErrorOf(n, status) == <<"error", n, status>>
CanceledError == <<"error", "canceled">>
RefreshError == <<"error", "refresh">>
Pending == <<"pending">>

VARIABLES
    authStore,   \* useAuthStore state: accessToken, refreshToken, user, isAuthenticated
    location,    \* window.location / router location
    nextTok,     \* backend: number of the next token pair it issues
    req,         \* per call slot: the axios request config and the call's progress
    form,        \* the Login page: loading, error, tokens held by handleSubmit
    registerPage,   \* the Register page: its fields, error, loading, the register call
    dashboard,      \* the Dashboard page: search, signalFilter, page, the query's data
    settingsPage,   \* the Settings page: formData, status, testingService, testResult
    setupDb         \* one run of deploy/cloudpanel/setup-db.sh

client == <<authStore, location, nextTok, req, form>>
pageVars == <<registerPage, dashboard, settingsPage>>
vars == <<authStore, location, nextTok, req, form,
          registerPage, dashboard, settingsPage, setupDb>>

\* ---------------------------------------------------------------- store
EmptyStore ==
    [accessToken |-> Null, refreshToken |-> Null, user |-> FALSE, isAuthenticated |-> FALSE]

setTokens(store, access, refresh) ==
    [store EXCEPT !.accessToken = access, !.refreshToken = refresh]

logout(store) == EmptyStore

setAuth(store, access, refresh) ==
    [accessToken |-> access, refreshToken |-> refresh, user |-> TRUE, isAuthenticated |-> TRUE]

\* a temporary store write that sets the access token alone
LoginSetState_AccessOnly(store, access, refresh) ==
    [store EXCEPT !.accessToken = access]

\* useAuthStore.setState({accessToken, refreshToken}) in Login.handleSubmit
LoginSetState(store, access, refresh) ==
    [store EXCEPT !.accessToken = access, !.refreshToken = refresh]

\* ---------------------------------------------------------------- requests
IdleReq ==
    [pc |-> "idle", url |-> "none", retry |-> FALSE, Authorization |-> NoHeader,
     wire |-> <<>>, status |-> <<>>, refreshCalls |-> 0, marks |-> 0,
     usedRefresh |-> Null, newAccess |-> Null, logouts |-> 0, redirects |-> 0,
     aborted |-> FALSE, result |-> Pending]

NewCall(url) == [IdleReq EXCEPT !.pc = "queued", !.url = url]

\* a request interceptor that keeps a header the config already carries
RequestInterceptor_KeepsHeader(store, header) ==
    IF header # NoHeader THEN header
    ELSE IF store.accessToken # Null THEN Bearer(store.accessToken) ELSE header

\* request interceptor: config.headers.Authorization from the store's accessToken
RequestInterceptor(store, header) ==
    IF store.accessToken # Null THEN Bearer(store.accessToken) ELSE header

\* a fulfilled handler that hands on response.data instead of the response
Fulfilled_Unwraps(response) == <<"data", response[3]>>

\* response interceptor, fulfilled side: (response) => response
Fulfilled(response) == response

\* a recovery condition that forgets the _retry marker
ShouldRefresh_IgnoresMarker(status, retried) == status = Unauthorized

\* a recovery condition that fires on every failure of a fresh request
ShouldRefresh_AnyFailure(status, retried) == ~retried

\* error.response?.status === 401 && !originalRequest._retry
ShouldRefresh(status, retried) == status = Unauthorized /\ ~retried

\* a handler that starts the refresh call without looking for a refresh token
HasRefreshToken_Unchecked(store) == TRUE

\* a handler that joins a refresh already in flight instead of starting its own
HasRefreshToken_Coalesced(store) ==
    store.refreshToken # Null /\ \A t \in Slots : req[t].pc # "refreshing"

\* if (refreshToken)
HasRefreshToken(store) == store.refreshToken # Null

\* a forced logout that only redirects and leaves the credentials in place
ForcedLogout_KeepsTokens(store) == [store |-> store, location |-> "/login"]

\* a forced logout that spares a store whose refresh token no in-flight refresh used
ForcedLogout_IfTokenCurrent(store) ==
    IF \E t \in Slots : req[t].pc = "refreshing" /\ req[t].usedRefresh = store.refreshToken
    THEN [store |-> logout(store), location |-> "/login"]
    ELSE [store |-> store, location |-> location]

\* logout(); window.location.href = '/login'
ForcedLogout(store) == [store |-> logout(store), location |-> "/login"]

\* a refresh success that re-sends without storing the returned pair
StoreRefreshed_Skips(store, access_token, refresh_token) == store

\* setTokens(access_token, refresh_token) with the pair of the refresh response
StoreRefreshed(store, access_token, refresh_token) ==
    setTokens(store, access_token, refresh_token)

\* a catch block that lets the refresh call's error reach the caller
AfterRefreshFailure_Rethrows(error, refreshError) == refreshError

\* catch { ... } swallows the refresh error; Promise.reject(error) rejects the original
AfterRefreshFailure(error, refreshError) == error

TypeOK ==
    /\ authStore.accessToken \in {Null} \cup {AccessOf(n) : n \in 1..MaxTok}
    /\ authStore.refreshToken \in {Null} \cup {RefreshOf(n) : n \in 1..MaxTok}
    /\ authStore.isAuthenticated \in BOOLEAN
    /\ location \in {"/login", "/"}
    /\ nextTok \in 1..(MaxTok + 1)
    /\ \A s \in Slots : req[s].pc \in {"idle", "queued", "sent", "refreshing", "done"}
    /\ form.pc \in {"idle", "login", "me"}

\* ---------------------------------------------------------------- initial values
\* the API client, the store and the Login page after construction
ClientInit ==
    /\ authStore = EmptyStore
    /\ location = "/login"
    /\ nextTok = 1
    /\ req = [s \in Slots |-> IdleReq]
    /\ form = [pc |-> "idle", loading |-> FALSE, error |-> "", tokens |-> 0]

\* Register: useState('') for the fields and the error, useState(false) for loading
RegisterMounted ==
    [password |-> <<>>, confirmPassword |-> <<>>, error |-> "", loading |-> FALSE,
     pc |-> "idle", result |-> "none", navigated |-> FALSE]

\* useQuery's data while the query of the current key has no result: undefined
NoData == [loaded |-> FALSE, pages |-> 0]

\* Dashboard: useState('') twice, useState(1); the query has no data yet;
\* nextClicked remembers data.pages as of the last click on Next, 0 before any
DashboardMounted ==
    [search |-> "", signalFilter |-> "", page |-> 1, data |-> NoData, nextClicked |-> 0]

\* testingService === null
NoService == "null"

\* Settings: useState({}), useState(null) twice; the status query is loading.
\* formData holds the services whose key field is not empty, inflight the test
\* requests not yet settled, in the order they were started
SettingsMounted ==
    [formData |-> {}, status |-> [loaded |-> FALSE, configured |-> {}],
     testingService |-> NoService, testResult |-> Null,
     inflight |-> <<>>, started |-> 0, lastStarted |-> NoService]

\* setup-db.sh before it is run.  databases: the names psql -l lists; line and
\* newline: what stdin holds for read, and whether a newline ends it; sql: the
\* statements given to psql so far; exit: <<status>> once the script has ended
SetupNotRun ==
    [pc |-> "off", whoami |-> "", databases |-> {}, line |-> <<>>, newline |-> FALSE,
     matched |-> FALSE, asked |-> FALSE, confirm |-> <<>>, sql |-> <<>>, exit |-> <<>>]

PagesInit ==
    /\ registerPage = RegisterMounted
    /\ dashboard = DashboardMounted
    /\ settingsPage = SettingsMounted

Init ==
    /\ ClientInit
    /\ PagesInit
    /\ setupDb = SetupNotRun

\* the request interceptor runs on config and the request goes on the wire
Sent(config, store) ==
    LET header == RequestInterceptor(store, config.Authorization)
    IN [config EXCEPT !.Authorization = header,
                      !.wire = Append(@, header),
                      !.pc = "sent"]

\* a component calls apiClient.get/post/put(...): the request is sent with the
\* header the store gives it when the interceptor runs
Call(r) ==
    /\ req[r].pc = "idle"
    /\ \A q \in Reqs : q < r => req[q].pc # "idle"    \* slots number the calls in order
    /\ req' = [req EXCEPT ![r] = Sent(NewCall("api"), authStore)]
    /\ UNCHANGED <<authStore, location, nextTok, form>>
    /\ UNCHANGED <<pageVars, setupDb>>

\* a request issued from a continuation (the re-send, Login's getMe) is sent
\* when its request interceptor job runs
Dispatch(s) ==
    /\ req[s].pc = "queued"
    /\ req' = [req EXCEPT ![s] =
                  IF req[s].aborted
                  THEN [req[s] EXCEPT !.pc = "done", !.result = CanceledError]
                  ELSE Sent(req[s], authStore)]
    /\ UNCHANGED <<authStore, location, nextTok, form>>
    /\ UNCHANGED <<pageVars, setupDb>>

\* response interceptor, fulfilled side: (response) => response
ResponseFulfilled(s) ==
    /\ req[s].pc = "sent"
    /\ ~req[s].aborted
    /\ LET n == Len(req[s].wire)
           issues == req[s].url = "login"
       IN /\ issues => nextTok <= MaxTok
          /\ req' = [req EXCEPT ![s].status = Append(@, 200),
                                ![s].result =
                                    Fulfilled(ResponseOf(n, IF issues THEN nextTok ELSE 0)),
                                ![s].pc = "done"]
          /\ nextTok' = IF issues THEN nextTok + 1 ELSE nextTok
    /\ UNCHANGED <<authStore, location, form>>
    /\ UNCHANGED <<pageVars, setupDb>>

\* response interceptor, rejected side, up to the await of the refresh call
ResponseRejected(s, st) ==
    /\ req[s].pc = "sent"
    /\ req[s].aborted => st = NoResponse
    /\ LET n == Len(req[s].wire)
           error == ErrorOf(n, st)
           seen == [req[s] EXCEPT !.status = Append(@, st)]
           forced == ForcedLogout(authStore)
       IN IF ShouldRefresh(st, req[s].retry)
          THEN LET marked == [seen EXCEPT !.retry = TRUE, !.marks = @ + 1]
               IN IF HasRefreshToken(authStore)
                  THEN /\ req' = [req EXCEPT ![s] =
                                    [marked EXCEPT !.pc = "refreshing",
                                                   !.usedRefresh = authStore.refreshToken,
                                                   !.refreshCalls = @ + 1]]
                       /\ UNCHANGED <<authStore, location>>
                  ELSE /\ authStore' = forced.store
                       /\ location' = forced.location
                       /\ req' = [req EXCEPT ![s] =
                                    [marked EXCEPT !.pc = "done", !.logouts = @ + 1,
                                                   !.redirects = @ + 1,
                                                   !.result = error]]
          ELSE /\ req' = [req EXCEPT ![s] = [seen EXCEPT !.pc = "done", !.result = error]]
               /\ UNCHANGED <<authStore, location>>
    /\ UNCHANGED <<nextTok, form>>
    /\ UNCHANGED <<pageVars, setupDb>>

\* the refresh call succeeded: store the pair, re-issue the original request
RefreshSucceeded(s) ==
    /\ req[s].pc = "refreshing"
    /\ nextTok <= MaxTok
    /\ LET access_token == AccessOf(nextTok)
           refresh_token == RefreshOf(nextTok)
       IN /\ authStore' = StoreRefreshed(authStore, access_token, refresh_token)
          /\ req' = [req EXCEPT ![s].newAccess = access_token,
                                ![s].Authorization = Bearer(access_token),
                                ![s].pc = "queued"]
    /\ nextTok' = nextTok + 1
    /\ UNCHANGED <<location, form>>
    /\ UNCHANGED <<pageVars, setupDb>>

\* the refresh call failed: catch block, then Promise.reject(error)
RefreshFailed(s) ==
    /\ req[s].pc = "refreshing"
    /\ authStore' = ForcedLogout(authStore).store
    /\ location' = ForcedLogout(authStore).location
    /\ req' = [req EXCEPT ![s].logouts = @ + 1, ![s].redirects = @ + 1,
                          ![s].result =
                              AfterRefreshFailure(
                                  ErrorOf(Len(req[s].status), req[s].status[Len(req[s].status)]),
                                  RefreshError),
                          ![s].pc = "done"]
    /\ UNCHANGED <<nextTok, form>>
    /\ UNCHANGED <<pageVars, setupDb>>

\* ---------------------------------------------------------------- Login page
\* a catch block that rolls the store back when the login flow fails
CaughtLoginError_RollsBack(store) == logout(store)

\* catch (err) { setError(...) }: the store is left as the failure found it
CaughtLoginError(store) == store

Submit ==
    /\ form.pc = "idle"
    /\ ~form.loading
    /\ form' = [form EXCEPT !.pc = "login", !.loading = TRUE, !.error = ""]
    /\ req' = [req EXCEPT ![LoginSlot] = Sent(NewCall("login"), authStore)]
    /\ UNCHANGED <<authStore, location, nextTok>>
    /\ UNCHANGED <<pageVars, setupDb>>

LoginSettled ==
    /\ form.pc = "login"
    /\ req[LoginSlot].pc = "done"
    /\ LET res == req[LoginSlot].result
       IN IF res[1] = "response"
          THEN /\ authStore' = LoginSetState(authStore, AccessOf(res[3]), RefreshOf(res[3]))
               /\ form' = [form EXCEPT !.pc = "me", !.tokens = res[3]]
               /\ req' = [req EXCEPT ![LoginSlot] = NewCall("me")]
          ELSE /\ form' = [form EXCEPT !.pc = "idle", !.loading = FALSE,
                                       !.error = "Login failed"]
               /\ req' = [req EXCEPT ![LoginSlot] = IdleReq]
               /\ authStore' = CaughtLoginError(authStore)
    /\ UNCHANGED <<location, nextTok>>
    /\ UNCHANGED <<pageVars, setupDb>>

MeSettled ==
    /\ form.pc = "me"
    /\ req[LoginSlot].pc = "done"
    /\ LET res == req[LoginSlot].result
       IN IF res[1] = "response"
          THEN /\ authStore' = setAuth(authStore, AccessOf(form.tokens), RefreshOf(form.tokens))
               /\ location' = "/"
               /\ form' = [form EXCEPT !.pc = "idle", !.loading = FALSE, !.tokens = 0]
          ELSE /\ form' = [form EXCEPT !.pc = "idle", !.loading = FALSE, !.tokens = 0,
                                       !.error = "Login failed"]
               /\ authStore' = CaughtLoginError(authStore)
               /\ UNCHANGED location
    /\ req' = [req EXCEPT ![LoginSlot] = IdleReq]
    /\ UNCHANGED nextTok
    /\ UNCHANGED <<pageVars, setupDb>>

Next ==
    \/ \E r \in Reqs : Call(r)
    \/ \E s \in Slots : Dispatch(s)
    \/ \E s \in Slots : ResponseFulfilled(s)
    \/ \E s \in Slots, st \in FailureStatuses : ResponseRejected(s, st)
    \/ \E s \in Slots : RefreshSucceeded(s)
    \/ \E s \in Slots : RefreshFailed(s)
    \/ Submit
    \/ LoginSettled
    \/ MeSettled

Spec == Init /\ [][Next]_vars

\* the HTTP exchanges and the queued jobs of every call eventually happen
Exchange(s) ==
    \/ Dispatch(s)
    \/ ResponseFulfilled(s)
    \/ \E st \in FailureStatuses : ResponseRejected(s, st)
    \/ RefreshSucceeded(s)
    \/ RefreshFailed(s)

LiveSpec == Spec /\ \A s \in Slots : WF_vars(Exchange(s))

\* the caller aborts the signal of its request config while the call is in flight:
\* the exchange of originalRequest ends without a response; the refresh call is
\* made with a config of its own ({ params }) that carries no signal
Abort(s) ==
    /\ req[s].pc \in {"sent", "refreshing", "queued"}
    /\ ~req[s].aborted
    /\ req' = [req EXCEPT ![s].aborted = TRUE]
    /\ UNCHANGED <<authStore, location, nextTok, form>>
    /\ UNCHANGED <<pageVars, setupDb>>

NextWithAbort ==
    \/ Next
    \/ \E s \in Slots : Abort(s)

AbortSpec == Init /\ [][NextWithAbort]_vars

\* ---------------------------------------------------------------- routes
\* <Navigate to="/login" replace />
NavigateToLogin == <<"Navigate", "/login">>

\* the children of the protected parent route: path below "/" and page element
ProtectedChildren ==
    {<<"/", "Dashboard">>, <<"/stocks/:symbol", "StockDetail">>,
     <<"/watchlists", "Watchlists">>, <<"/portfolio", "Portfolio">>,
     <<"/trades", "TradeHistory">>, <<"/settings", "Settings">>}

ProtectedPaths == {c[1] : c \in ProtectedChildren}
PublicPaths == {"/login", "/register"}

\* a guard that looks for an access token instead of the isAuthenticated flag
ProtectedRoute_ByToken(store, children) ==
    IF store.accessToken = Null THEN NavigateToLogin ELSE children

\* function ProtectedRoute({ children })
ProtectedRoute(store, children) ==
    IF ~store.isAuthenticated THEN NavigateToLogin ELSE children

\* what <Routes> renders for a path, given the store
RouteElement(path, store) ==
    IF path = "/login" THEN <<"Login">>
    ELSE IF path = "/register" THEN <<"Register">>
    ELSE LET child == CHOOSE c \in ProtectedChildren : c[1] = path
         IN ProtectedRoute(store, <<"Layout", child[2]>>)

\* ---------------------------------------------------------------- Register page
\* a string of n characters ch
Repeat(ch, n) == [i \in 1..n |-> ch]

\* what the user types into the password fields: empty, one character short,
\* just long enough, and the same lengths spelled differently
Passwords ==
    {<<>>,
     Repeat("a", MinPasswordLength - 1), Repeat("a", MinPasswordLength),
     Repeat("b", MinPasswordLength - 1), Repeat("b", MinPasswordLength)}

MismatchMessage == "Passwords do not match"
TooShortMessage == "Password must be at least 8 characters"
RegistrationFailed == "Registration failed"
ServerDetail == "Email already registered"

\* a validation that tests the length before the confirmation
Validate_LengthFirst(password, confirmPassword) ==
    IF Len(password) < MinPasswordLength THEN TooShortMessage
    ELSE IF password # confirmPassword THEN MismatchMessage
    ELSE ""

\* the two early returns of handleSubmit: the message set, "" when both pass
Validate(password, confirmPassword) ==
    IF password # confirmPassword THEN MismatchMessage
    ELSE IF Len(password) < MinPasswordLength THEN TooShortMessage
    ELSE ""

\* onChange of the password input
SetPassword(p) ==
    /\ ~registerPage.navigated
    /\ registerPage' = [registerPage EXCEPT !.password = p]
    /\ UNCHANGED <<client, dashboard, settingsPage, setupDb>>

\* onChange of the confirmation input
SetConfirmPassword(p) ==
    /\ ~registerPage.navigated
    /\ registerPage' = [registerPage EXCEPT !.confirmPassword = p]
    /\ UNCHANGED <<client, dashboard, settingsPage, setupDb>>

\* handleSubmit up to its await; the submit button is disabled while loading
RegisterSubmit ==
    /\ ~registerPage.navigated
    /\ registerPage.pc = "idle"
    /\ ~registerPage.loading
    /\ LET message == Validate(registerPage.password, registerPage.confirmPassword)
       IN registerPage' =
              IF message # ""
              THEN [registerPage EXCEPT !.error = message]
              ELSE [registerPage EXCEPT !.error = "", !.loading = TRUE,
                                        !.pc = "calling", !.result = "pending"]
    /\ UNCHANGED <<client, dashboard, settingsPage, setupDb>>

\* the register call settles: success, a failure with a detail, one without
RegisterAnswered(r) ==
    /\ registerPage.pc = "calling"
    /\ registerPage' = [registerPage EXCEPT !.pc = "answered", !.result = r]
    /\ UNCHANGED <<client, dashboard, settingsPage, setupDb>>

\* handleSubmit after its await: navigate or catch, then finally
RegisterContinued ==
    /\ registerPage.pc = "answered"
    /\ registerPage' =
           [registerPage EXCEPT
               !.navigated = (registerPage.result = "ok"),
               !.error = IF registerPage.result = "ok" THEN @
                         ELSE IF registerPage.result = "detail" THEN ServerDetail
                         ELSE RegistrationFailed,
               !.loading = FALSE,
               !.pc = "idle"]
    /\ UNCHANGED <<client, dashboard, settingsPage, setupDb>>

RegisterNext ==
    \/ \E p \in Passwords : SetPassword(p)
    \/ \E p \in Passwords : SetConfirmPassword(p)
    \/ RegisterSubmit
    \/ \E r \in {"ok", "detail", "nodetail"} : RegisterAnswered(r)
    \/ RegisterContinued

RegisterSpec == Init /\ [][RegisterNext]_vars

\* ---------------------------------------------------------------- Dashboard page
Searches == {"", "ab"}
Signals == {"", "strong_buy", "buy", "hold", "sell", "strong_sell"}

Min(a, b) == IF a <= b THEN a ELSE b
Max(a, b) == IF a >= b THEN a ELSE b

\* a Next handler that does not clamp to data.pages
NextPage_Unclamped(pages, p) == p + 1

\* (p) => Math.min(data.pages, p + 1)
NextPage(pages, p) == Min(pages, p + 1)

\* (p) => Math.max(1, p - 1)
PreviousPage(p) == Max(1, p - 1)

\* setPage(1) of the two filter handlers
FirstPage(p) == 1

\* queryKey: ['stocks', page, signalFilter, search]
QueryKey(d) == <<"stocks", d.page, d.signalFilter, d.search>>

\* useQuery after a render: a new key has no result yet.  (A result cached for
\* the key is shown at once and refetched; that is the state one QuerySettled
\* step later.)
Rendered(old, new) ==
    IF QueryKey(new) = QueryKey(old) THEN new ELSE [new EXCEPT !.data = NoData]

\* the pagination block is rendered: data && data.pages > 1
PaginationShown(d) == d.data.loaded /\ d.data.pages > 1

\* onChange of the search input
SearchChanged(text) ==
    /\ text # dashboard.search
    /\ dashboard' = Rendered(dashboard,
                              [dashboard EXCEPT !.search = text, !.page = FirstPage(@)])
    /\ UNCHANGED <<client, registerPage, settingsPage, setupDb>>

\* onChange of the signal select
SignalChanged(signal) ==
    /\ signal # dashboard.signalFilter
    /\ dashboard' = Rendered(dashboard,
                              [dashboard EXCEPT !.signalFilter = signal,
                                                !.page = FirstPage(@)])
    /\ UNCHANGED <<client, registerPage, settingsPage, setupDb>>

\* click on Previous; the button is disabled on page 1
PreviousClicked ==
    /\ PaginationShown(dashboard)
    /\ dashboard.page # 1
    /\ dashboard' = Rendered(dashboard, [dashboard EXCEPT !.page = PreviousPage(@)])
    /\ UNCHANGED <<client, registerPage, settingsPage, setupDb>>

\* click on Next; the button is disabled when page === data.pages
NextClicked ==
    /\ PaginationShown(dashboard)
    /\ dashboard.page # dashboard.data.pages
    /\ dashboard' = Rendered(dashboard,
                              [dashboard EXCEPT !.page = NextPage(dashboard.data.pages, @),
                                                !.nextClicked = dashboard.data.pages])
    /\ UNCHANGED <<client, registerPage, settingsPage, setupDb>>

\* listStocks answers for the current key (first fetch, refetch or Refresh)
QuerySettled(n) ==
    /\ dashboard' = [dashboard EXCEPT !.data = [loaded |-> TRUE, pages |-> n]]
    /\ UNCHANGED <<client, registerPage, settingsPage, setupDb>>

DashboardNext ==
    \/ \E text \in Searches : SearchChanged(text)
    \/ \E signal \in Signals : SignalChanged(signal)
    \/ PreviousClicked
    \/ NextClicked
    \/ \E n \in 0..MaxPages : QuerySettled(n)

DashboardSpec == Init /\ [][DashboardNext]_vars

\* ---------------------------------------------------------------- Settings page
Services == {"polygon", "alpaca"}

\* disabled of a Test button: isTesting || (!configured && !value)
TestDisabled(page, service) ==
    \/ page.testingService = service
    \/ service \notin page.status.configured /\ service \notin page.formData

\* an onSettled that clears the indicator only for the test it belongs to
OnSettled_OwnOnly(testing, service) == IF testing = service THEN NoService ELSE testing

\* onSettled: () => { setTestingService(null) }, run for every test that settles
OnSettled(testing, service) == NoService

\* the sequence without its i-th element
Without(seq, i) == SubSeq(seq, 1, i - 1) \o SubSeq(seq, i + 1, Len(seq))

\* the status query answers (first load, or refetch after invalidateQueries)
StatusLoaded(configured) ==
    /\ settingsPage' = [settingsPage EXCEPT
                            !.status = [loaded |-> TRUE, configured |-> configured]]
    /\ UNCHANGED <<client, registerPage, dashboard, setupDb>>

\* onChange of the key fields, or setFormData({}) after a save: the set of
\* services whose field is not empty changes
FormChanged(keys) ==
    /\ settingsPage.status.loaded
    /\ keys # settingsPage.formData
    /\ settingsPage' = [settingsPage EXCEPT !.formData = keys]
    /\ UNCHANGED <<client, registerPage, dashboard, setupDb>>

\* handleTest(service), from a Test button that is rendered and enabled
HandleTest(service) ==
    /\ settingsPage.status.loaded
    /\ ~TestDisabled(settingsPage, service)
    /\ settingsPage.started < MaxTests
    /\ settingsPage' = [settingsPage EXCEPT
                            !.testingService = service,
                            !.testResult = Null,
                            !.inflight = Append(@, service),
                            !.started = @ + 1,
                            !.lastStarted = service]
    /\ UNCHANGED <<client, registerPage, dashboard, setupDb>>

\* the i-th test request in flight settles: onSuccess when the call returned a
\* result (its success flag either way), then onSettled
TestSettled(i, outcome) ==
    /\ i \in DOMAIN settingsPage.inflight
    /\ LET service == settingsPage.inflight[i]
       IN settingsPage' = [settingsPage EXCEPT
                              !.testResult =
                                  IF outcome = "error" THEN @
                                  ELSE <<service, outcome = "success">>,
                              !.testingService = OnSettled(@, service),
                              !.inflight = Without(@, i)]
    /\ UNCHANGED <<client, registerPage, dashboard, setupDb>>

SettingsNext ==
    \/ \E configured \in SUBSET Services : StatusLoaded(configured)
    \/ \E keys \in SUBSET Services : FormChanged(keys)
    \/ \E service \in Services : HandleTest(service)
    \/ \E i \in 1..MaxTests, outcome \in {"success", "failed", "error"} :
           TestSettled(i, outcome)

SettingsSpec == Init /\ [][SettingsNext]_vars

\* ---------------------------------------------------------------- setup-db.sh
DB_NAME == "penny_stock"

\* database names as grep -w sees them: runs of word characters and the
\* characters between them
DatabaseNames ==
    {<<"penny_stock">>, <<"penny_stock", "-", "old">>, <<"penny_stock2">>}

\* lines typed at the prompt, character by character
Answers ==
    {<<>>, <<"y">>, <<"Y">>, <<"n">>, <<"N">>, <<"y", "e", "s">>,
     <<" ", "y">>, <<"y", " ">>, <<"\\", "y">>, <<"y", "\\", " ">>}

\* exit statuses of psql: done, failed statement, no connection
PsqlStatuses == {0, 1, 2}

\* grep -qw ${DB_NAME} on the name column: a whole word of some line
ListsDatabase(databases) ==
    \E name \in databases : \E i \in DOMAIN name : name[i] = DB_NAME

RECURSIVE TrimLeft(_)
TrimLeft(l) == IF l # <<>> /\ Head(l) = " " THEN TrimLeft(Tail(l)) ELSE l

RECURSIVE TrimRight(_)
TrimRight(l) ==
    IF /\ l # <<>>
       /\ l[Len(l)] = " "
       /\ ~(Len(l) >= 2 /\ l[Len(l) - 1] = "\\")
    THEN TrimRight(SubSeq(l, 1, Len(l) - 1))
    ELSE l

RECURSIVE Unescape(_)
Unescape(l) ==
    IF l = <<>> THEN <<>>
    ELSE IF Head(l) = "\\"
         THEN IF Len(l) >= 2 THEN <<l[2]>> \o Unescape(SubSeq(l, 3, Len(l))) ELSE <<>>
         ELSE <<Head(l)>> \o Unescape(Tail(l))

\* read without -r into one variable: blanks at both ends are dropped, a
\* backslash is removed and keeps the character after it
ReadWord(l) == Unescape(TrimRight(TrimLeft(l)))

\* a test that takes every answer beginning with y or Y for a yes
Confirmed_ByFirstLetter(confirm) == confirm # <<>> /\ Head(confirm) \in {"y", "Y"}

\* [ "$confirm" = "y" ] || [ "$confirm" = "Y" ]
Confirmed(confirm) == confirm = <<"y">> \/ confirm = <<"Y">>

\* the script ends with this status
Exited(run, status) == [run EXCEPT !.pc = "exited", !.exit = <<status>>]

\* psql -c statement under set -e: the statement is issued; a failure ends the run
Psql(run, statement, status, next) ==
    LET issued == [run EXCEPT !.sql = Append(@, statement)]
    IN IF status = 0 THEN [issued EXCEPT !.pc = next] ELSE Exited(issued, status)

\* the script is started by some user, on some cluster, with some input
Run(user, databases, line, newline) ==
    /\ setupDb.pc = "off"
    /\ setupDb' = [setupDb EXCEPT !.pc = "whoami", !.whoami = user,
                                  !.databases = databases,
                                  !.line = line, !.newline = newline]
    /\ UNCHANGED <<client, pageVars>>

\* if [ "$(whoami)" != "postgres" ]; then ... exit 1
CheckUser ==
    /\ setupDb.pc = "whoami"
    /\ setupDb' = IF setupDb.whoami # "postgres"
                  THEN Exited(setupDb, 1)
                  ELSE [setupDb EXCEPT !.pc = "list"]
    /\ UNCHANGED <<client, pageVars>>

\* if psql -lqt | cut -d \| -f 1 | grep -qw ${DB_NAME}: a psql that fails
\* lists nothing, and the pipeline's status is grep's
CheckDatabase(status) ==
    /\ setupDb.pc = "list"
    /\ LET listed == IF status = 0 THEN setupDb.databases ELSE {}
       IN setupDb' = IF ListsDatabase(listed)
                     THEN [setupDb EXCEPT !.pc = "read", !.matched = TRUE]
                     ELSE [setupDb EXCEPT !.pc = "create_user"]
    /\ UNCHANGED <<client, pageVars>>

\* read -p ... confirm, under set -e: at end of input without a newline read
\* assigns what it got and fails, which ends the script with status 1
ReadAnswer ==
    /\ setupDb.pc = "read"
    /\ LET answered == [setupDb EXCEPT !.asked = TRUE, !.confirm = ReadWord(setupDb.line)]
       IN setupDb' =
              IF ~setupDb.newline THEN Exited(answered, 1)
              ELSE IF Confirmed(answered.confirm) THEN [answered EXCEPT !.pc = "drop_database"]
              ELSE Exited(answered, 0)
    /\ UNCHANGED <<client, pageVars>>

\* psql -c "DROP DATABASE IF EXISTS ${DB_NAME};"
DropDatabase(status) ==
    /\ setupDb.pc = "drop_database"
    /\ LET dropped == [setupDb EXCEPT !.databases =
                           IF status = 0 THEN @ \ {<<DB_NAME>>} ELSE @]
       IN setupDb' = Psql(dropped, "DROP DATABASE", status, "drop_user")
    /\ UNCHANGED <<client, pageVars>>

\* psql -c "DROP USER IF EXISTS ${DB_USER};"
DropUser(status) ==
    /\ setupDb.pc = "drop_user"
    /\ setupDb' = Psql(setupDb, "DROP USER", status, "create_user")
    /\ UNCHANGED <<client, pageVars>>

\* psql -c "CREATE USER ..."
CreateUser(status) ==
    /\ setupDb.pc = "create_user"
    /\ setupDb' = Psql(setupDb, "CREATE USER", status, "create_database")
    /\ UNCHANGED <<client, pageVars>>

\* psql -c "CREATE DATABASE ..."; it fails when the database exists
CreateDatabase(status) ==
    /\ setupDb.pc = "create_database"
    /\ <<DB_NAME>> \in setupDb.databases => status # 0
    /\ LET created == [setupDb EXCEPT !.databases =
                           IF status = 0 THEN @ \cup {<<DB_NAME>>} ELSE @]
       IN setupDb' = Psql(created, "CREATE DATABASE", status, "grant")
    /\ UNCHANGED <<client, pageVars>>

\* psql -c "GRANT ALL PRIVILEGES ..."
Grant(status) ==
    /\ setupDb.pc = "grant"
    /\ setupDb' = Psql(setupDb, "GRANT", status, "extensions")
    /\ UNCHANGED <<client, pageVars>>

\* psql -d ${DB_NAME} << EOF ... EOF, then the credentials are printed
Extensions(status) ==
    /\ setupDb.pc = "extensions"
    /\ setupDb' = LET after == Psql(setupDb, "CREATE EXTENSION", status, "printed")
                  IN IF status = 0 THEN Exited(after, 0) ELSE after
    /\ UNCHANGED <<client, pageVars>>

SetupNext ==
    \/ \E user \in {"postgres", "root"}, databases \in SUBSET DatabaseNames,
          line \in Answers, newline \in BOOLEAN : Run(user, databases, line, newline)
    \/ CheckUser
    \/ \E status \in PsqlStatuses : CheckDatabase(status)
    \/ ReadAnswer
    \/ \E status \in PsqlStatuses : DropDatabase(status)
    \/ \E status \in PsqlStatuses : DropUser(status)
    \/ \E status \in PsqlStatuses : CreateUser(status)
    \/ \E status \in PsqlStatuses : CreateDatabase(status)
    \/ \E status \in PsqlStatuses : Grant(status)
    \/ \E status \in PsqlStatuses : Extensions(status)

SetupSpec == Init /\ [][SetupNext]_vars

\* ---------------------------------------------------------------- properties
Last(seq) == seq[Len(seq)]

\* slot s puts a request on the wire in this step
Sends(s) == Len(req'[s].wire) = Len(req[s].wire) + 1

\* the response handler of slot s receives status st in this step
Receives(s, st) ==
    /\ req[s].pc = "sent"
    /\ Len(req'[s].status) = Len(req[s].status) + 1
    /\ Last(req'[s].status) = st

\* the outcome of the n-th send of slot s, as the caller would get it untouched
OutcomeOf(s, n) ==
    IF req[s].status[n] = 200
    THEN ResponseOf(n, req[s].result[3])
    ELSE ErrorOf(n, req[s].status[n])

CredentialsCleared(store) == store.accessToken = Null /\ store.refreshToken = Null

\* C1: every request put on the wire, first send or retry, while the store holds
\* an access token carries Authorization = "Bearer " + that current store value.
C1_BearerFromStore ==
    [][\A s \in Slots :
          (Sends(s) /\ authStore.accessToken # Null)
              => Last(req'[s].wire) = Bearer(authStore.accessToken)]_vars

\* a retry went out with the store's token although the config carried another one
C1_Witness ==
    \E s \in Slots :
        /\ Len(req[s].wire) = 2
        /\ req[s].wire[1] # NoHeader
        /\ req[s].wire[2] # req[s].wire[1]
        /\ req[s].wire[2] = Bearer(authStore.accessToken)

C3_OneRecoveryPerRequest ==
    \A s \in Slots :
        /\ req[s].marks <= 1
        /\ req[s].refreshCalls <= 1
        /\ Len(req[s].wire) <= 2
        /\ (Len(req[s].status) = 2 /\ req[s].status[2] = Unauthorized) =>
               /\ req[s].pc = "done"
               /\ req[s].result = ErrorOf(2, Unauthorized)
               /\ req[s].refreshCalls = 1
               /\ req[s].marks = 1

\* the re-send was answered 401 again and the caller holds that second error
C3_Witness ==
    \E s \in Slots :
        /\ req[s].status = <<Unauthorized, Unauthorized>>
        /\ req[s].pc = "done"
        /\ req[s].result = ErrorOf(2, Unauthorized)

\* C4: a 401 for a not yet retried request while the store holds no refresh
\* token: logout, location /login, no refresh call, no re-send, and the caller
\* is rejected with the original 401.
C4_NoRefreshToken ==
    [][\A s \in Slots :
          /\ (Receives(s, Unauthorized) /\ ~req[s].retry /\ authStore.refreshToken = Null) =>
                 /\ CredentialsCleared(authStore')
                 /\ location' = "/login"
                 /\ req'[s].logouts = 1 /\ req'[s].redirects = 1
                 /\ req'[s].refreshCalls = 0
                 /\ req'[s].wire = req[s].wire
                 /\ req'[s].pc = "done"
                 /\ req'[s].result = ErrorOf(1, Unauthorized)
          /\ (req[s].pc = "done" /\ req[s].refreshCalls = 0 /\ req'[s] # req[s]) =>
                 req'[s] \in {IdleReq, NewCall("me")}]_vars

\* a request sent with a bearer token was answered 401 after the store had been cleared
C4_Witness ==
    \E s \in Slots :
        /\ req[s].pc = "done"
        /\ req[s].status = <<Unauthorized>>
        /\ req[s].wire[1] # NoHeader
        /\ req[s].refreshCalls = 0
        /\ req[s].logouts = 1
        /\ location = "/login"

\* C5: the refresh call fails: logout, location /login, no re-send, and the
\* caller is rejected with the original request's 401, not the refresh error.
C5_RefreshFails ==
    [][\A s \in Slots :
          (req[s].pc = "refreshing" /\ req'[s].newAccess = Null /\ req'[s] # req[s]) =>
              /\ CredentialsCleared(authStore')
              /\ location' = "/login"
              /\ req'[s].logouts = 1 /\ req'[s].redirects = 1
              /\ req'[s].wire = req[s].wire /\ Len(req[s].wire) = 1
              /\ req'[s].pc = "done"
              /\ req'[s].result = ErrorOf(1, Unauthorized)
              /\ req'[s].result # RefreshError]_vars

\* a refresh call failed: the caller holds the first 401 and the store is empty
C5_Witness ==
    \E s \in Slots :
        /\ req[s].pc = "done"
        /\ req[s].refreshCalls = 1
        /\ req[s].newAccess = Null
        /\ req[s].logouts = 1
        /\ req[s].result = ErrorOf(1, Unauthorized)
        /\ CredentialsCleared(authStore)

\* C6: in every reachable state the store's access and refresh token are both
\* absent or both come from one login or refresh response.
C6_PairWrittenTogether ==
    \/ CredentialsCleared(authStore)
    \/ /\ authStore.accessToken # Null
       /\ authStore.refreshToken # Null
       /\ IssueOf(authStore.accessToken) = IssueOf(authStore.refreshToken)

\* a refresh replaced the login's pair while another request is queued to read the store
C6_Witness ==
    \E s, t \in Slots :
        /\ s # t
        /\ req[s].newAccess = authStore.accessToken
        /\ authStore.accessToken # Null
        /\ IssueOf(authStore.refreshToken) > 1
        /\ req[t].pc = "queued"

\* C7 as stated: a failing call delivers the originating request's error, never
\* the refresh error, and after a first 401 the caller sees something other
\* than a 401 only when the refresh and the retry both succeeded.
C7_OnlySuccessHidesThe401 ==
    \A s \in Slots :
        req[s].pc = "done" =>
            /\ req[s].result # RefreshError
            /\ req[s].result[1] = "error" => req[s].result = OutcomeOf(s, req[s].result[2])
            /\ (req[s].status[1] = Unauthorized
                  /\ ~(req[s].result[1] = "error" /\ req[s].result[3] = Unauthorized)) =>
                   /\ req[s].newAccess # Null
                   /\ req[s].status = <<Unauthorized, 200>>
                   /\ req[s].result[1] = "response"

\* C7 amended: a failing call delivers an error of the originating request (of
\* its first send, or of its re-send once the refresh succeeded), never the
\* refresh error; after a first 401 the caller gets that 401 unless the refresh
\* succeeded, and then it gets the outcome of the re-send, response or error.
C7_OriginalErrorPropagates ==
    \A s \in Slots :
        req[s].pc = "done" =>
            /\ req[s].result # RefreshError
            /\ req[s].result[1] = "error" => req[s].result = OutcomeOf(s, req[s].result[2])
            /\ req[s].status[1] = Unauthorized =>
                   req[s].result = IF req[s].newAccess # Null
                                   THEN OutcomeOf(s, 2)
                                   ELSE ErrorOf(1, Unauthorized)

\* one call: refresh succeeded, re-send failed with a server error; another: refresh failed
C7_Witness ==
    \E s, t \in Slots :
        /\ req[s].pc = "done"
        /\ req[s].status = <<Unauthorized, ServerError>>
        /\ req[s].result = ErrorOf(2, ServerError)
        /\ req[t].pc = "done"
        /\ req[t].refreshCalls = 1
        /\ req[t].newAccess = Null
        /\ req[t].result = ErrorOf(1, Unauthorized)

\* C8: a failure that is not a 401 (another status, or no response at all) is
\* rejected to the caller unchanged: no refresh call, no re-send, marker untouched.
C8_OtherFailuresPassThrough ==
    [][\A s \in Slots : \A st \in FailureStatuses \ {Unauthorized} :
          Receives(s, st) =>
              /\ req'[s].pc = "done"
              /\ req'[s].result = ErrorOf(Len(req[s].wire), st)
              /\ req'[s].refreshCalls = req[s].refreshCalls
              /\ req'[s].wire = req[s].wire
              /\ req'[s].retry = req[s].retry
              /\ req'[s].marks = req[s].marks
              /\ UNCHANGED <<authStore, location>>]_vars

\* one first send ended in a server error and another in a transport error
C8_Witness ==
    \E s, t \in Slots :
        /\ req[s].pc = "done" /\ req[s].status = <<ServerError>>
        /\ req[s].result = ErrorOf(1, ServerError) /\ ~req[s].retry
        /\ req[t].pc = "done" /\ req[t].status = <<NoResponse>>
        /\ req[t].result = ErrorOf(1, NoResponse) /\ ~req[t].retry

\* C9: a successful response reaches the caller unchanged, with no refresh
\* call, no re-send, no logout and no redirect.
C9_SuccessPassesThrough ==
    [][\A s \in Slots :
          Receives(s, 200) =>
              /\ req'[s].pc = "done"
              /\ req'[s].result[1] = "response"
              /\ req'[s].result[2] = Len(req[s].wire)
              /\ req'[s].refreshCalls = req[s].refreshCalls
              /\ req'[s].wire = req[s].wire
              /\ req'[s].logouts = req[s].logouts
              /\ req'[s].redirects = req[s].redirects
              /\ UNCHANGED <<authStore, location>>]_vars

\* a request sent with a bearer token succeeded at once and the tokens are still stored
C9_Witness ==
    \E s \in Reqs :
        /\ req[s].pc = "done"
        /\ req[s].status = <<200>>
        /\ req[s].result = ResponseOf(1, 0)
        /\ req[s].wire[1] # NoHeader
        /\ authStore.accessToken # Null
        /\ req[s].logouts = 0

\* C10: when every HTTP exchange eventually returns, every call reaches its
\* caller, after at most two sends of the request and at most one refresh call.
C10_EveryCallTerminates ==
    /\ [](\A s \in Slots : Len(req[s].wire) <= 2 /\ req[s].refreshCalls <= 1)
    /\ \A s \in Slots : []<>(req[s].pc \in {"idle", "done"})

\* a call ended after the longest path: send, 401, refresh, re-send
C10_Witness ==
    \E s \in Slots :
        /\ req[s].pc = "done"
        /\ Len(req[s].wire) = 2
        /\ req[s].refreshCalls = 1

\* C11: every not yet retried request that receives 401 while a refresh token is
\* stored issues its own refresh call with that token, also while refresh calls
\* of other requests are in flight: N such requests make N refresh calls.
C11_NoCoalescing ==
    [][\A s \in Slots :
          (Receives(s, Unauthorized) /\ ~req[s].retry /\ authStore.refreshToken # Null) =>
              /\ req'[s].pc = "refreshing"
              /\ req'[s].refreshCalls = req[s].refreshCalls + 1
              /\ req'[s].usedRefresh = authStore.refreshToken
              /\ Cardinality({t \in Slots : req'[t].pc = "refreshing"}) =
                     Cardinality({t \in Slots : req[t].pc = "refreshing"}) + 1]_vars

\* two refresh calls with the same refresh token are in flight at once
C11_Witness ==
    \E s, t \in Slots :
        /\ s # t
        /\ req[s].pc = "refreshing" /\ req[t].pc = "refreshing"
        /\ req[s].usedRefresh = req[t].usedRefresh
        /\ req[s].refreshCalls = 1 /\ req[t].refreshCalls = 1

\* C12: once the caller has aborted an operation whose refresh or retry is in
\* flight, that operation stores no new tokens and sends no further request.
C12_AbortStopsRecovery ==
    [][\A s \in Slots :
          (req[s].aborted /\ req[s].pc \in {"refreshing", "queued", "sent"}) =>
              /\ ~Sends(s)
              /\ req'[s].newAccess = req[s].newAccess]_vars

C14_StepsInOrder ==
    [][\A s \in Slots :
          /\ req'[s].refreshCalls > req[s].refreshCalls =>
                 /\ req[s].pc = "sent"
                 /\ req[s].wire = req'[s].wire /\ Len(req[s].wire) = 1
                 /\ req'[s].status = <<Unauthorized>>
          /\ (req'[s].newAccess # Null /\ req[s].newAccess = Null) =>
                 /\ req[s].pc = "refreshing"
                 /\ req[s].refreshCalls = 1
                 /\ authStore'.accessToken = req'[s].newAccess
                 /\ IssueOf(authStore'.refreshToken) = IssueOf(req'[s].newAccess)
                 /\ req'[s].wire = req[s].wire
          /\ (Sends(s) /\ Len(req[s].wire) = 1) =>
                 /\ req[s].pc = "queued"
                 /\ req[s].newAccess # Null
                 /\ req[s].status = <<Unauthorized>>]_vars

\* the re-send is on the wire after the 401, the refresh and the store update
C14_Witness ==
    \E s \in Slots :
        /\ req[s].pc = "sent"
        /\ Len(req[s].wire) = 2
        /\ req[s].status = <<Unauthorized>>
        /\ req[s].refreshCalls = 1
        /\ req[s].newAccess = authStore.accessToken

\* C15: the interceptors change the credential store in two situations only:
\* setTokens with the pair of a successful refresh, and logout (with the
\* redirect) after a 401 with no refresh token or after a failed refresh.  A
\* success, a non-401 error, a transport error and a 401 for an already
\* retried request leave the store alone and redirect nowhere.
C15_StoreWrittenOnlyByRecovery ==
    [][/\ (form' = form /\ (authStore' # authStore \/ location' # location)) =>
              \E s \in Slots :
                  \/ /\ req[s].pc = "refreshing"
                     /\ req'[s].newAccess # Null
                     /\ authStore' = setTokens(authStore, req'[s].newAccess,
                                               RefreshOf(IssueOf(req'[s].newAccess)))
                     /\ location' = location
                  \/ /\ req'[s].logouts = req[s].logouts + 1
                     /\ authStore' = logout(authStore)
                     /\ location' = "/login"
       /\ \A s \in Slots :
              /\ req'[s].logouts > req[s].logouts =>
                     \/ req[s].pc = "refreshing" /\ req'[s].newAccess = Null
                     \/ /\ Receives(s, Unauthorized) /\ ~req[s].retry
                        /\ authStore.refreshToken = Null
              /\ \A st \in FailureStatuses \cup {200} :
                     (Receives(s, st) /\ (st # Unauthorized \/ req[s].retry)) =>
                         /\ UNCHANGED <<authStore, location>>
                         /\ req'[s].logouts = req[s].logouts
                         /\ req'[s].redirects = req[s].redirects]_vars

\* a re-send was answered 401 and the pair its refresh stored is still in the store
C15_Witness ==
    \E s \in Slots :
        /\ req[s].pc = "done"
        /\ req[s].status = <<Unauthorized, Unauthorized>>
        /\ req[s].logouts = 0
        /\ authStore.accessToken = req[s].newAccess
        /\ authStore.accessToken # Null

\* the Login page's request is /auth/me and goes on the wire in this step
SendsMe == req[LoginSlot].url = "me" /\ req[LoginSlot].wire = <<>> /\ Sends(LoginSlot)

\* the parts of the login flow that do not depend on what /auth/me carries
LoginFlowOrder ==
    /\ (form.pc = "login" /\ form'.pc = "me") =>
           /\ req[LoginSlot].result[1] = "response"
           /\ authStore'.accessToken = AccessOf(req[LoginSlot].result[3])
           /\ authStore'.refreshToken = RefreshOf(req[LoginSlot].result[3])
           /\ req'[LoginSlot].pc = "queued" /\ req'[LoginSlot].wire = <<>>
           /\ authStore'.isAuthenticated = authStore.isAuthenticated
           /\ location' = location
    /\ SendsMe => form.pc = "me"
    /\ ((authStore'.isAuthenticated /\ ~authStore.isAuthenticated)
            \/ (location' = "/" /\ location # "/")) =>
           /\ form.pc = "me"
           /\ req[LoginSlot].pc = "done"
           /\ req[LoginSlot].result[1] = "response"
           /\ authStore'.accessToken = AccessOf(form.tokens)
           /\ authStore'.isAuthenticated /\ location' = "/"
    /\ (form.pc # "idle" /\ form'.pc = "idle"
            /\ req[LoginSlot].result[1] # "response") =>
           /\ authStore'.isAuthenticated = authStore.isAuthenticated
           /\ location' = location

C17_FailedRefreshWipesFreshTokens ==
    [][\A t \in Slots :
          (/\ req[t].pc = "refreshing" /\ req'[t].pc = "done"
           /\ authStore.refreshToken # Null
           /\ authStore.refreshToken # req[t].usedRefresh) =>
              /\ CredentialsCleared(authStore')
              /\ ~authStore'.isAuthenticated
              /\ location' = "/login"
              /\ req'[t].logouts = 1]_vars

\* two refreshes used the same refresh token; one stored a new pair, the other
\* failed afterwards and the store is empty
C17_Witness ==
    \E s, t \in Slots :
        /\ s # t
        /\ req[s].usedRefresh = req[t].usedRefresh
        /\ req[s].newAccess # Null
        /\ req[t].pc = "done" /\ req[t].refreshCalls = 1 /\ req[t].newAccess = Null
        /\ req[t].logouts = 1
        /\ CredentialsCleared(authStore)
        /\ location = "/login"

\* C18: when the refresh succeeded and the re-sent request fails, with a 401 or
\* with any other error, the caller receives the re-sent request's error, the
\* stored pair stays in the store, and there is no logout and no redirect.
C18_RetryFailurePassesThrough ==
    [][\A s \in Slots : \A st \in FailureStatuses :
          (Receives(s, st) /\ req[s].newAccess # Null) =>
              /\ req'[s].pc = "done"
              /\ req'[s].result = ErrorOf(2, st)
              /\ req'[s].refreshCalls = 1
              /\ req'[s].logouts = 0 /\ req'[s].redirects = 0
              /\ UNCHANGED <<authStore, location>>]_vars

\* a request was answered 401 twice, around a successful refresh, and the pair
\* that refresh stored is still in the store
C18_Witness ==
    \E s \in Slots :
        /\ req[s].pc = "done" /\ req[s].status = <<Unauthorized, Unauthorized>>
        /\ req[s].result = ErrorOf(2, Unauthorized)
        /\ req[s].refreshCalls = 1 /\ req[s].logouts = 0 /\ req[s].redirects = 0
        /\ authStore.accessToken = req[s].newAccess
        /\ authStore.refreshToken = RefreshOf(IssueOf(req[s].newAccess))

\* C19: the 401 recovery applies to every request made through apiClient, the
\* login call included: a 401 answer to a request not yet retried always marks
\* it and either starts a refresh or forces a logout, and a 401 answer to
\* /auth/login while the store holds no refresh token calls logout and sets the
\* location to /login while the login form is still waiting for the error.
C19_RecoveryCoversLogin ==
    [][/\ \A s \in Slots :
             (Receives(s, Unauthorized) /\ ~req[s].retry) =>
                 /\ req'[s].retry /\ req'[s].marks = 1
                 /\ \/ req'[s].pc = "refreshing" /\ req'[s].refreshCalls = 1
                    \/ req'[s].pc = "done" /\ req'[s].logouts = 1
       /\ (/\ req[LoginSlot].url = "login"
           /\ Receives(LoginSlot, Unauthorized) /\ ~req[LoginSlot].retry
           /\ authStore.refreshToken = Null) =>
              /\ req'[LoginSlot].logouts = 1 /\ req'[LoginSlot].redirects = 1
              /\ req'[LoginSlot].refreshCalls = 0
              /\ CredentialsCleared(authStore')
              /\ location' = "/login"
              /\ req'[LoginSlot].pc = "done"
              /\ req'[LoginSlot].result = ErrorOf(1, Unauthorized)
              /\ form.pc = "login" /\ form.loading /\ form.error = ""
              /\ form' = form]_vars

\* the login call was answered 401 with no refresh token in the store: logout
\* and redirect happened, the form has not yet received the error
C19_Witness ==
    /\ req[LoginSlot].url = "login" /\ req[LoginSlot].pc = "done"
    /\ req[LoginSlot].result = ErrorOf(1, Unauthorized)
    /\ req[LoginSlot].logouts = 1 /\ req[LoginSlot].redirects = 1
    /\ req[LoginSlot].refreshCalls = 0
    /\ location = "/login"
    /\ form.pc = "login" /\ form.loading /\ form.error = ""

\* C20: when /auth/login succeeded and /auth/me ends in an error that forced no
\* logout, handleSubmit shows an error and resets loading, does not call
\* setAuth and does not navigate, and leaves the store as it is: the tokens
\* written by the temporary setState are not rolled back.
C20_NoRollbackAfterMeFailure ==
    [][(/\ form.pc = "me" /\ form'.pc = "idle"
        /\ req[LoginSlot].result[1] = "error"
        /\ req[LoginSlot].logouts = 0) =>
           /\ form'.error # "" /\ ~form'.loading
           /\ authStore' = authStore
           /\ location' = location]_vars

\* the only pair ever issued came from /auth/login and is still in the store
\* of a user who is not authenticated, on the login page, looking at an error
C20_Witness ==
    /\ form.pc = "idle" /\ form.error # "" /\ ~form.loading
    /\ nextTok = 2
    /\ authStore.accessToken = AccessOf(1) /\ authStore.refreshToken = RefreshOf(1)
    /\ ~authStore.isAuthenticated
    /\ location = "/login"

\* C21: Register.handleSubmit sends the register call only when the password
\* equals the confirmation and has at least 8 characters; the mismatch is
\* tested before the length; a failed validation sends nothing, leaves loading
\* false and sets the matching message; navigation to /login happens only after
\* the call succeeded, and loading is false once the call has settled.
C21_RegisterValidation ==
    [][LET page == registerPage
           matches == page.password = page.confirmPassword
           longEnough == Len(page.password) >= MinPasswordLength
       IN /\ (page.pc = "idle" /\ registerPage'.pc = "calling") =>
                 /\ matches /\ longEnough
                 /\ registerPage'.loading /\ registerPage'.error = ""
          /\ (page.pc = "idle" /\ registerPage'.pc = "idle"
                 /\ registerPage'.error # page.error) =>
                 /\ ~(matches /\ longEnough)
                 /\ registerPage'.error =
                        IF ~matches THEN MismatchMessage ELSE TooShortMessage
                 /\ ~registerPage'.loading
                 /\ registerPage'.navigated = page.navigated
          /\ (registerPage'.navigated /\ ~page.navigated) =>
                 page.pc = "answered" /\ page.result = "ok"
          /\ (page.pc = "answered" /\ registerPage'.pc # "answered") =>
                 /\ registerPage'.pc = "idle"
                 /\ ~registerPage'.loading
                 /\ registerPage'.navigated = (page.result = "ok")
          /\ registerPage'.loading = (registerPage'.pc \in {"calling", "answered"})]_vars

\* a password both too short and different from its confirmation was submitted:
\* the mismatch message is shown, nothing was sent
C21_Witness ==
    /\ registerPage.error = MismatchMessage
    /\ registerPage.password # registerPage.confirmPassword
    /\ Len(registerPage.password) < MinPasswordLength
    /\ Len(registerPage.password) > 0
    /\ registerPage.pc = "idle" /\ ~registerPage.loading /\ ~registerPage.navigated
    /\ registerPage.result = "none"

\* C22: ProtectedRoute renders its children exactly when isAuthenticated is
\* true in the store: while it is false every protected route renders a
\* redirect to /login instead of its page, whatever tokens the store holds;
\* /login and /register render their pages with or without authentication.
C22_ProtectedRoutes ==
    /\ \A c \in ProtectedChildren :
           /\ authStore.isAuthenticated =>
                  RouteElement(c[1], authStore) = <<"Layout", c[2]>>
           /\ ~authStore.isAuthenticated =>
                  RouteElement(c[1], authStore) = NavigateToLogin
    /\ RouteElement("/login", authStore) = <<"Login">>
    /\ RouteElement("/register", authStore) = <<"Register">>

\* the store holds the tokens of a login whose /auth/me has not returned yet:
\* not authenticated, so the protected routes still redirect
C22_Witness ==
    /\ ~authStore.isAuthenticated
    /\ authStore.accessToken # Null
    /\ form.pc = "me"
    /\ \A path \in ProtectedPaths : RouteElement(path, authStore) = NavigateToLogin

\* C23: on the Dashboard the page number is always at least 1 and, once Next
\* has been clicked, never above the pages count of the data that was shown at
\* the last click on Next; the page only grows by a click on Next, to at most
\* that count; a change of the search text or of the signal filter sets it to 1.
C23_PageWithinData ==
    /\ [](/\ dashboard.page >= 1
          /\ (dashboard.nextClicked = 0 => dashboard.page = 1)
          /\ (dashboard.nextClicked # 0 => dashboard.page <= dashboard.nextClicked))
    /\ [][/\ (dashboard'.search # dashboard.search) => (dashboard'.page = 1)
          /\ (dashboard'.signalFilter # dashboard.signalFilter) => (dashboard'.page = 1)
          /\ (dashboard'.page > dashboard.page) =>
                 (/\ dashboard.data.loaded
                  /\ dashboard'.page <= dashboard.data.pages
                  /\ dashboard'.nextClicked = dashboard.data.pages)]_vars

\* Next led to the last page; the result for that page then reported fewer
\* pages, so the page shown lies above the current pages count but not above
\* the one Next was clicked on
C23_Witness ==
    /\ dashboard.page = MaxPages
    /\ dashboard.nextClicked = MaxPages
    /\ dashboard.data.loaded
    /\ dashboard.data.pages > 1
    /\ dashboard.data.pages < dashboard.page

\* C24: in Settings, testingService becomes the service when its test starts
\* and becomes null whenever any test request settles, so a test that settles
\* while a later one is still in flight clears the indicator of the later one:
\* no request left in flight is shown as testing.
C24_AnySettleClearsIndicator ==
    [][/\ (settingsPage'.started # settingsPage.started) =>
              (/\ settingsPage'.testingService = settingsPage'.lastStarted
               /\ settingsPage'.testingService \in Services
               /\ settingsPage'.inflight =
                      Append(settingsPage.inflight, settingsPage'.testingService))
       /\ (Len(settingsPage'.inflight) < Len(settingsPage.inflight)) =>
              (/\ settingsPage'.testingService = NoService
               /\ \A i \in DOMAIN settingsPage'.inflight :
                      settingsPage'.testingService # settingsPage'.inflight[i])]_vars

\* alpaca's test was started while polygon's was in flight; polygon's settled
\* with a result: the indicator is clear and alpaca's Test button is enabled
\* although alpaca's request is still pending
C24_Witness ==
    /\ settingsPage.lastStarted = "alpaca"
    /\ settingsPage.inflight = <<"alpaca">>
    /\ settingsPage.started = 2
    /\ settingsPage.testResult # Null
    /\ settingsPage.testResult[1] = "polygon"
    /\ settingsPage.testingService = NoService
    /\ ~TestDisabled(settingsPage, "alpaca")

\* the statements of a run that drop something
Drops(run) == {i \in DOMAIN run.sql : run.sql[i] \in {"DROP DATABASE", "DROP USER"}}

\* the parts of C25 that do not depend on how the answer ends: a run by another
\* user than postgres ends with status 1 before any statement; a DROP is issued
\* only by postgres, after the listing matched and the answer read is y or Y
NoDropWithoutYes ==
    /\ (setupDb.pc \notin {"off", "whoami"} /\ setupDb.whoami # "postgres") =>
           (setupDb.pc = "exited" /\ setupDb.exit = <<1>> /\ setupDb.sql = <<>>)
    /\ Drops(setupDb) # {} =>
           (/\ setupDb.whoami = "postgres"
            /\ setupDb.matched /\ setupDb.asked
            /\ setupDb.confirm \in {<<"y">>, <<"Y">>})

====
